---------------------------- MODULE Spec2Model ----------------------------
(***************************************************************************)
(* A model of mip/model.py (python-mip): the linear-expression algebra     *)
(* (LinExpr, Var operators), the cut pool (CutPool) and the model's        *)
(* solution-availability state machine (Model.optimize, Var.x, Var.xi).    *)
(*                                                                         *)
(* Numbers.  Python floats are modelled as fixed-point integers counting   *)
(* units of 1e-8, so the number 1 is One and the tolerance EPS is one      *)
(* unit.  The scalars of * and / are whole numbers (multiples of One).     *)
(***************************************************************************)
EXTENDS Integers, Sequences, FiniteSets, TLC

VARIABLES
    \* --- expression algebra: one operator call on constructed operands
    lhs,        \* the left operand (the receiver of a method call), as it is now
    rhs,        \* the right operand (the argument), as it is now
    result,     \* what the call returned
    call,       \* the call made, and the operands as they were before it
    \* --- cut pool
    cuts,       \* CutPool.__cuts
    pos,        \* CutPool.__pos
    added,      \* what the last CutPool.add returned, and for which cut
    \* --- model
    status,     \* Model.__status
    threads,    \* Model.__threads
    mcuts,      \* Model.__cuts
    mvars,      \* Model.vars: the Var handles (idx, name)
    constrs,    \* Model.constrs: the Constr handles (idx, name)
    vars_by_name,    \* Model.vars_by_name: name -> position in Model.vars
    constrs_by_name, \* Model.constrs_by_name: name -> position in Model.constrs
    start,      \* Model.__mipStart
    solver,     \* Model.solver: the state the backend holds
    query       \* the last operation on the model, and its outcome

algVars   == <<lhs, rhs, result, call>>
poolVars  == <<cuts, pos, added>>
modelVars == <<status, threads, mcuts, mvars, constrs, vars_by_name, constrs_by_name,
               start, solver, query>>
vars      == <<lhs, rhs, result, call, cuts, pos, added,
               status, threads, mcuts, mvars, constrs, vars_by_name, constrs_by_name,
               start, solver, query>>

----------------------------------------------------------------------------
(* Numbers *)

\* the literal 1 (and 1.0) of the source, in units of 1e-8
One == 100000000
\* mip.constants.EPS
EPS == 1

Abs(n) == IF n < 0 THEN -n ELSE n

\* c * n for a whole number n
NumMul(c, n) == c * (n \div One)
\* c / n for a whole number n, rounded toward zero
NumDiv(c, n) ==
    LET k == n \div One
    IN  IF (c < 0) = (k < 0) THEN Abs(c) \div Abs(k) ELSE -(Abs(c) \div Abs(k))
IsWhole(n) == n % One = 0

\* mip.constants: constraint senses
EQUAL            == "="
LESS_OR_EQUAL    == "<"
GREATER_OR_EQUAL == ">"
NoSense          == ""
Senses           == {NoSense, EQUAL, LESS_OR_EQUAL, GREATER_OR_EQUAL}

----------------------------------------------------------------------------
(* Python dict, as LinExpr.expr uses it: keys are Var (by idx), insertion-   *)
(* ordered; an update keeps the key's place, a new key goes last.            *)

EmptyDict == <<>>

Keys(d)   == {d[i][1] : i \in 1..Len(d)}
HasKey(d, v) == \E i \in 1..Len(d) : d[i][1] = v
KeyIndex(d, v) == CHOOSE i \in 1..Len(d) : d[i][1] = v
Lookup(d, v) == d[KeyIndex(d, v)][2]
\* d[v] = c
Store(d, v, c) ==
    IF HasKey(d, v) THEN [d EXCEPT ![KeyIndex(d, v)] = <<v, c>>]
    ELSE Append(d, <<v, c>>)
\* del d[v]
Delete(d, v) ==
    LET i == KeyIndex(d, v)
    IN  SubSeq(d, 1, i - 1) \o SubSeq(d, i + 1, Len(d))
\* value of v's coefficient, 0 when v is no term
Coef(d, v) == IF HasKey(d, v) THEN Lookup(d, v) ELSE 0

----------------------------------------------------------------------------
(* LinExpr *)

Expr(d, c, s) == [expr |-> d, const |-> c, sense |-> s]

\* LinExpr()
NewLinExpr == Expr(EmptyDict, 0, NoSense)

\* LinExpr.add_var removing a term only when the sum is strictly inside the band
add_var_open_band(e, var, coeff) ==
    IF HasKey(e.expr, var)
    THEN IF -EPS < Lookup(e.expr, var) + coeff /\ Lookup(e.expr, var) + coeff < EPS
         THEN [e EXCEPT !.expr = Delete(e.expr, var)]
         ELSE [e EXCEPT !.expr = Store(e.expr, var, Lookup(e.expr, var) + coeff)]
    ELSE [e EXCEPT !.expr = Store(e.expr, var, coeff)]

\* LinExpr.add_var
add_var(e, var, coeff) ==
    IF HasKey(e.expr, var)
    THEN IF -EPS <= Lookup(e.expr, var) + coeff /\ Lookup(e.expr, var) + coeff <= EPS
         THEN [e EXCEPT !.expr = Delete(e.expr, var)]
         ELSE [e EXCEPT !.expr = Store(e.expr, var, Lookup(e.expr, var) + coeff)]
    ELSE [e EXCEPT !.expr = Store(e.expr, var, coeff)]

\* LinExpr.add_const
add_const(e, c) == [e EXCEPT !.const = e.const + c]

\* the loop of LinExpr.add_expr over expr.expr.items()
RECURSIVE AddItems(_, _, _)
AddItems(e, items, coeff) ==
    IF items = <<>> THEN e
    ELSE AddItems(add_var(e, items[1][1], NumMul(items[1][2], coeff)), Tail(items), coeff)

\* LinExpr.add_expr
add_expr(e, o, coeff) ==
    AddItems([e EXCEPT !.const = e.const + NumMul(o.const, coeff)], o.expr, coeff)

\* the loop of LinExpr.__init__ over range(len(coeffs))
RECURSIVE InitItems(_, _, _)
InitItems(e, variables, coeffs) ==
    IF coeffs = <<>> THEN e
    ELSE InitItems(IF coeffs[1] = 0 THEN e ELSE add_var(e, variables[1], coeffs[1]),
                   Tail(variables), Tail(coeffs))

\* LinExpr.__init__
LinExprInit(variables, coeffs, const, sense) ==
    InitItems(Expr(EmptyDict, const, sense), variables, coeffs)

\* LinExpr.copy
copy(e) == Expr(e.expr, e.const, e.sense)

----------------------------------------------------------------------------
(* Operands: a Var (by idx), a LinExpr, a number, or None / a raised error *)

Operand(k, i, x, m) == [kind |-> k, idx |-> i, e |-> x, n |-> m]
VarOp(i)  == Operand("Var", i, NewLinExpr, 0)
ExprOp(x) == Operand("LinExpr", 0, x, 0)
NumOp(m)  == Operand("num", 0, NewLinExpr, m)
NoneOp    == Operand("None", 0, NewLinExpr, 0)
ZeroDivisionError == Operand("ZeroDivisionError", 0, NewLinExpr, 0)
\* an operand that is no Var, no LinExpr and no number (a str)
StrOp == Operand("str", 0, NewLinExpr, 0)
\* the failed assert isinstance(other, int) or isinstance(other, float)
AssertionError == Operand("AssertionError", 0, NewLinExpr, 0)

\* LinExpr.__add__
LinExpr_add(s, o) ==
    IF o.kind = "Var" THEN add_var(copy(s), o.idx, One)
    ELSE IF o.kind = "LinExpr" THEN add_expr(copy(s), o.e, One)
    ELSE IF o.kind = "num" THEN add_const(copy(s), o.n)
    ELSE copy(s)

\* LinExpr.__radd__
LinExpr_radd(s, o) == LinExpr_add(s, o)

\* LinExpr.__iadd__ (the receiver after the call, which is also returned)
LinExpr_iadd(s, o) ==
    IF o.kind = "Var" THEN add_var(s, o.idx, One)
    ELSE IF o.kind = "LinExpr" THEN add_expr(s, o.e, One)
    ELSE IF o.kind = "num" THEN add_const(s, o.n)
    ELSE s

\* LinExpr.__sub__
LinExpr_sub(s, o) ==
    IF o.kind = "Var" THEN add_var(copy(s), o.idx, -One)
    ELSE IF o.kind = "LinExpr" THEN add_expr(copy(s), o.e, -One)
    ELSE IF o.kind = "num" THEN add_const(copy(s), -o.n)
    ELSE copy(s)

\* LinExpr.__isub__
LinExpr_isub(s, o) ==
    IF o.kind = "Var" THEN add_var(s, o.idx, -One)
    ELSE IF o.kind = "LinExpr" THEN add_expr(s, o.e, -One)
    ELSE IF o.kind = "num" THEN add_const(s, -o.n)
    ELSE s

\* every coefficient of d times the whole number n
Scale(d, n) == [i \in 1..Len(d) |-> <<d[i][1], NumMul(d[i][2], n)>>]
\* every coefficient of d divided by the whole number n
Unscale(d, n) == [i \in 1..Len(d) |-> <<d[i][1], NumDiv(d[i][2], n)>>]

\* the literal -1e-8 of LinExpr.__mul__
MulFlipBelow == -1

\* LinExpr.__mul__: the expression returned
LinExpr_mul(s, n) == Expr(Scale(copy(s).expr, n), NumMul(copy(s).const, n), copy(s).sense)

\* LinExpr.__mul__: the receiver after the call (the two ifs on self.sense)
LinExpr_mul_self(s, n) ==
    LET s1 == IF s.sense = GREATER_OR_EQUAL /\ n <= MulFlipBelow
              THEN [s EXCEPT !.sense = LESS_OR_EQUAL] ELSE s
    IN  IF s1.sense = LESS_OR_EQUAL /\ n <= MulFlipBelow
        THEN [s1 EXCEPT !.sense = GREATER_OR_EQUAL] ELSE s1

\* LinExpr.__rmul__
LinExpr_rmul(s, n) == LinExpr_mul(s, n)
LinExpr_rmul_self(s, n) == LinExpr_mul_self(s, n)

\* LinExpr.__imul__
LinExpr_imul(s, n) == [s EXCEPT !.const = NumMul(s.const, n), !.expr = Scale(s.expr, n)]

\* LinExpr.__truediv__ (n # 0)
LinExpr_truediv(s, n) == Expr(Unscale(copy(s).expr, n), NumDiv(copy(s).const, n), copy(s).sense)

\* LinExpr.__itruediv__ (n # 0)
LinExpr_itruediv(s, n) == [s EXCEPT !.const = NumDiv(s.const, n), !.expr = Unscale(s.expr, n)]

\* LinExpr.__neg__
LinExpr_neg(s) == LinExpr_mul(s, -One)
LinExpr_neg_self(s) == LinExpr_mul_self(s, -One)

\* LinExpr.__rsub__
LinExpr_rsub(s, o) == LinExpr_add(LinExpr_neg(s), o)
LinExpr_rsub_self(s, o) == LinExpr_neg_self(s)

\* LinExpr.__eq__
LinExpr_eq(s, o) == [LinExpr_sub(s, o) EXCEPT !.sense = "="]
\* LinExpr.__le__
LinExpr_le(s, o) == [LinExpr_sub(s, o) EXCEPT !.sense = "<"]
\* LinExpr.__ge__
LinExpr_ge(s, o) == [LinExpr_sub(s, o) EXCEPT !.sense = ">"]

\* LinExpr.add_term
add_term(s, t, coeff) ==
    IF t.kind = "Var" THEN add_var(s, t.idx, coeff)
    ELSE IF t.kind = "LinExpr" THEN add_expr(s, t.e, coeff)
    ELSE IF t.kind = "num" THEN add_const(s, t.n)
    ELSE s

\* LinExpr.equals
equals(s, o) ==
    IF s.const # o.const THEN FALSE
    ELSE IF s.sense # o.sense THEN FALSE
    ELSE IF Len(s.expr) # Len(o.expr) THEN FALSE
    ELSE \A i \in 1..Len(s.expr) :
            /\ HasKey(s.expr, s.expr[i][1])
            \* abs(c-oc) > 1e-12: 1e-12 is below one unit of the fixed point
            /\ ~(Abs(s.expr[i][2] - Lookup(s.expr, s.expr[i][1])) > 0)

\* the loop of xsum over terms
RECURSIVE SumTerms(_, _)
SumTerms(r, terms) ==
    IF terms = <<>> THEN r ELSE SumTerms(add_term(r, terms[1], One), Tail(terms))

\* xsum
xsum(terms) == SumTerms(NewLinExpr, terms)

----------------------------------------------------------------------------
(* Var: the operators, on the variable of index v *)

\* Var.__add__
Var_add(v, o) ==
    IF o.kind = "Var" THEN ExprOp(LinExprInit(<<v, o.idx>>, <<One, One>>, 0, NoSense))
    ELSE IF o.kind = "LinExpr" THEN ExprOp(LinExpr_add(o.e, VarOp(v)))
    ELSE IF o.kind = "num" THEN ExprOp(LinExprInit(<<v>>, <<One>>, o.n, NoSense))
    ELSE NoneOp

\* Var.__radd__
Var_radd(v, o) == Var_add(v, o)

\* Var.__sub__: the value returned
Var_sub(v, o) ==
    IF o.kind = "Var" THEN ExprOp(LinExprInit(<<v, o.idx>>, <<One, -One>>, 0, NoSense))
    ELSE IF o.kind = "LinExpr" THEN ExprOp(LinExpr_iadd(LinExpr_neg(o.e), VarOp(v)))
    ELSE IF o.kind = "num" THEN ExprOp(LinExprInit(<<v>>, <<One>>, -o.n, NoSense))
    ELSE NoneOp

\* Var.__sub__: the argument after the call ((-other) is other.__mul__(-1))
Var_sub_other(v, o) ==
    IF o.kind = "LinExpr" THEN ExprOp(LinExpr_neg_self(o.e)) ELSE o

\* Var.__rsub__
Var_rsub(v, o) ==
    IF o.kind = "Var" THEN ExprOp(LinExprInit(<<v, o.idx>>, <<-One, One>>, 0, NoSense))
    ELSE IF o.kind = "LinExpr" THEN ExprOp(LinExpr_sub(o.e, VarOp(v)))
    ELSE IF o.kind = "num" THEN ExprOp(LinExprInit(<<v>>, <<-One>>, o.n, NoSense))
    ELSE NoneOp

\* Var.__mul__
Var_mul(v, n) == ExprOp(LinExprInit(<<v>>, <<n>>, 0, NoSense))

\* Var.__rmul__
Var_rmul(v, n) == Var_mul(v, n)

\* Var.__truediv__ (n # 0): self.__mul__(1.0 / other)
Var_truediv(v, n) == Var_mul(v, NumDiv(One, n))

\* Var.__neg__
Var_neg(v) == ExprOp(LinExprInit(<<v>>, <<-One>>, 0, NoSense))

\* Var.__eq__
Var_eq(v, o) ==
    IF o.kind = "Var" THEN ExprOp(LinExprInit(<<v, o.idx>>, <<One, -One>>, 0, "="))
    ELSE IF o.kind = "LinExpr" THEN ExprOp(LinExpr_eq(o.e, VarOp(v)))
    ELSE IF o.kind = "num"
         THEN IF o.n # 0 THEN ExprOp(LinExprInit(<<v>>, <<One>>, NumMul(o.n, -One), "="))
              ELSE ExprOp(LinExprInit(<<v>>, <<One>>, 0, "="))
    ELSE NoneOp

\* Var.__le__ handing a LinExpr argument to LinExpr.__le__ instead of the argument's >=
Var_le_unmirrored(v, o) ==
    IF o.kind = "Var" THEN ExprOp(LinExprInit(<<v, o.idx>>, <<One, -One>>, 0, "<"))
    ELSE IF o.kind = "LinExpr" THEN ExprOp(LinExpr_le(o.e, VarOp(v)))
    ELSE IF o.kind = "num"
         THEN IF o.n # 0 THEN ExprOp(LinExprInit(<<v>>, <<One>>, NumMul(o.n, -One), "<"))
              ELSE ExprOp(LinExprInit(<<v>>, <<One>>, 0, "<"))
    ELSE NoneOp

\* Var.__le__
Var_le(v, o) ==
    IF o.kind = "Var" THEN ExprOp(LinExprInit(<<v, o.idx>>, <<One, -One>>, 0, "<"))
    ELSE IF o.kind = "LinExpr" THEN ExprOp(LinExpr_ge(o.e, VarOp(v)))
    ELSE IF o.kind = "num"
         THEN IF o.n # 0 THEN ExprOp(LinExprInit(<<v>>, <<One>>, NumMul(o.n, -One), "<"))
              ELSE ExprOp(LinExprInit(<<v>>, <<One>>, 0, "<"))
    ELSE NoneOp

\* Var.__ge__ handing a LinExpr argument to the argument's >= instead of its <=
Var_ge_unmirrored(v, o) ==
    IF o.kind = "Var" THEN ExprOp(LinExprInit(<<v, o.idx>>, <<One, -One>>, 0, ">"))
    ELSE IF o.kind = "LinExpr" THEN ExprOp(LinExpr_ge(o.e, VarOp(v)))
    ELSE IF o.kind = "num"
         THEN IF o.n # 0 THEN ExprOp(LinExprInit(<<v>>, <<One>>, NumMul(o.n, -One), ">"))
              ELSE ExprOp(LinExprInit(<<v>>, <<One>>, 0, ">"))
    ELSE NoneOp

\* Var.__ge__
Var_ge(v, o) ==
    IF o.kind = "Var" THEN ExprOp(LinExprInit(<<v, o.idx>>, <<One, -One>>, 0, ">"))
    ELSE IF o.kind = "LinExpr" THEN ExprOp(LinExpr_le(o.e, VarOp(v)))
    ELSE IF o.kind = "num"
         THEN IF o.n # 0 THEN ExprOp(LinExprInit(<<v>>, <<One>>, NumMul(o.n, -One), ">"))
              ELSE ExprOp(LinExprInit(<<v>>, <<One>>, 0, ">"))
    ELSE NoneOp


----------------------------------------------------------------------------
(* Python's dispatch of a binary operator on two operands: the left         *)
(* operand's method, or the right operand's reflected method when the left  *)
(* operand is a number.  Each gives the value returned and both operands as *)
(* they are after the call.                                                 *)

Out(r, l, rr) == [result |-> r, lhs |-> l, rhs |-> rr]

\* lhs + rhs
PyAdd(l, r) ==
    IF l.kind = "LinExpr" THEN Out(ExprOp(LinExpr_add(l.e, r)), l, r)
    ELSE IF l.kind = "Var" THEN Out(Var_add(l.idx, r), l, r)
    ELSE IF r.kind = "LinExpr" THEN Out(ExprOp(LinExpr_radd(r.e, l)), l, r)
    ELSE Out(Var_radd(r.idx, l), l, r)

\* lhs - rhs
PySub(l, r) ==
    IF l.kind = "LinExpr" THEN Out(ExprOp(LinExpr_sub(l.e, r)), l, r)
    ELSE IF l.kind = "Var" THEN Out(Var_sub(l.idx, r), l, Var_sub_other(l.idx, r))
    ELSE IF r.kind = "LinExpr"
         THEN Out(ExprOp(LinExpr_rsub(r.e, l)), l, ExprOp(LinExpr_rsub_self(r.e, l)))
    ELSE Out(Var_rsub(r.idx, l), l, r)

\* lhs * rhs, one of them a whole number
PyMul(l, r) ==
    IF r.kind = "str" THEN Out(AssertionError, l, r)
    ELSE IF l.kind = "LinExpr"
    THEN Out(ExprOp(LinExpr_mul(l.e, r.n)), ExprOp(LinExpr_mul_self(l.e, r.n)), r)
    ELSE IF l.kind = "Var" THEN Out(Var_mul(l.idx, r.n), l, r)
    ELSE IF r.kind = "LinExpr"
         THEN Out(ExprOp(LinExpr_rmul(r.e, l.n)), l, ExprOp(LinExpr_rmul_self(r.e, l.n)))
    ELSE Out(Var_rmul(r.idx, l.n), l, r)

\* lhs / rhs, rhs a whole number
PyDiv(l, r) ==
    IF r.kind = "str" THEN Out(AssertionError, l, r)
    ELSE IF r.n = 0 THEN Out(ZeroDivisionError, l, r)
    ELSE IF l.kind = "LinExpr" THEN Out(ExprOp(LinExpr_truediv(l.e, r.n)), l, r)
    ELSE Out(Var_truediv(l.idx, r.n), l, r)

\* -lhs
PyNeg(l) ==
    IF l.kind = "LinExpr"
    THEN Out(ExprOp(LinExpr_neg(l.e)), ExprOp(LinExpr_neg_self(l.e)), NoneOp)
    ELSE Out(Var_neg(l.idx), l, NoneOp)

\* lhs == rhs
PyEq(l, r) ==
    IF l.kind = "LinExpr" THEN Out(ExprOp(LinExpr_eq(l.e, r)), l, r)
    ELSE IF l.kind = "Var" THEN Out(Var_eq(l.idx, r), l, r)
    ELSE IF r.kind = "LinExpr" THEN Out(ExprOp(LinExpr_eq(r.e, l)), l, r)
    ELSE Out(Var_eq(r.idx, l), l, r)

\* lhs <= rhs (a number on the left: rhs.__ge__(lhs))
PyLe(l, r) ==
    IF l.kind = "LinExpr" THEN Out(ExprOp(LinExpr_le(l.e, r)), l, r)
    ELSE IF l.kind = "Var" THEN Out(Var_le(l.idx, r), l, r)
    ELSE IF r.kind = "LinExpr" THEN Out(ExprOp(LinExpr_ge(r.e, l)), l, r)
    ELSE Out(Var_ge(r.idx, l), l, r)

\* lhs >= rhs (a number on the left: rhs.__le__(lhs))
PyGe(l, r) ==
    IF l.kind = "LinExpr" THEN Out(ExprOp(LinExpr_ge(l.e, r)), l, r)
    ELSE IF l.kind = "Var" THEN Out(Var_ge(l.idx, r), l, r)
    ELSE IF r.kind = "LinExpr" THEN Out(ExprOp(LinExpr_le(r.e, l)), l, r)
    ELSE Out(Var_le(r.idx, l), l, r)


----------------------------------------------------------------------------
(* The expression algebra as a state machine: the operands are constructed  *)
(* (Var, a number, LinExpr.__init__), then one operator is applied.         *)

\* bounds of the operands
NumVars  == 2
MaxWhole == 1

Vars   == 0..(NumVars - 1)
Wholes == {w * One : w \in (-MaxWhole)..MaxWhole}
Nums   == Wholes \cup {-EPS, EPS}

VarLists == {<<>>} \cup {<<v>> : v \in Vars} \cup {<<v, w>> : v \in Vars, w \in Vars}
CtorArgs == UNION {{<<vs, cs>> : cs \in [1..Len(vs) -> Nums]} : vs \in VarLists}

\* the expressions LinExpr(variables, coeffs, const, sense) constructs
Exprs == {LinExprInit(a[1], a[2], k, s) : a \in CtorArgs, k \in {0, -One}, s \in Senses}
\* the arguments handed to a LinExpr receiver
ArgExprs ==
    {LinExprInit(<<v>>, <<One>>, k, s) :
        v \in Vars, k \in {0, One}, s \in {NoSense, LESS_OR_EQUAL}}
    \cup {LinExprInit(<<1, 0>>, <<One, -One>>, 0, NoSense)}

VarOps  == {VarOp(v) : v \in Vars}
NumOps  == {NumOp(m) : m \in Nums}
ExprOps == {ExprOp(x) : x \in Exprs}

IsExpr(o) == o.kind = "LinExpr"
IsVar(o)  == o.kind = "Var"
IsNum(o)  == o.kind = "num"
IsTerm(o) == o.kind \in {"Var", "LinExpr", "num"}
IsStr(o)  == o.kind = "str"

NewCall == [op |-> "new", lhs |-> NoneOp, rhs |-> NoneOp, coeff |-> 0]

\* the last two calls of CutPool.add: the cut handed, the value returned, and
\* the number of cuts stored before the last call
NoAdd == [calls |-> 0, cut |-> NewLinExpr, ret |-> FALSE, before |-> 0,
          prev_cut |-> NewLinExpr, prev_ret |-> FALSE]

\* CutPool.__init__
PoolInit ==
    /\ cuts = <<>>
    /\ pos = <<>>
    /\ added = NoAdd

InitOperands ==
    /\ \/ lhs \in ExprOps
          /\ rhs \in VarOps \cup NumOps \cup {ExprOp(x) : x \in ArgExprs} \cup {NoneOp, StrOp}
       \/ lhs \in VarOps \cup NumOps /\ rhs \in ExprOps
       \/ lhs \in VarOps /\ rhs \in VarOps \cup NumOps \cup {NoneOp, StrOp}
       \/ lhs \in NumOps /\ rhs \in VarOps
    /\ result = NoneOp
    /\ call = NewCall

\* the call op(lhs, rhs) with outcome out
Apply(op, out, coeff) ==
    /\ call.op = "new"
    /\ result' = out.result
    /\ lhs' = out.lhs
    /\ rhs' = out.rhs
    /\ call' = [op |-> op, lhs |-> lhs, rhs |-> rhs, coeff |-> coeff]
    /\ UNCHANGED <<cuts, pos, added>>
    /\ UNCHANGED <<status, threads, mcuts, mvars, constrs, vars_by_name, constrs_by_name,
                   start, solver, query>>

\* an in-place method returns its receiver
InPlace(x, r) == Out(ExprOp(x), ExprOp(x), r)
\* a method that returns nothing
Method(x, r) == Out(NoneOp, ExprOp(x), r)

Binary == \/ (IsExpr(lhs) \/ IsVar(lhs)) /\ (IsTerm(rhs) \/ IsStr(rhs))
          \/ IsNum(lhs) /\ (IsExpr(rhs) \/ IsVar(rhs))
Scaling == \/ (IsExpr(lhs) \/ IsVar(lhs)) /\ ((IsNum(rhs) /\ IsWhole(rhs.n)) \/ IsStr(rhs))
           \/ IsNum(lhs) /\ IsWhole(lhs.n) /\ (IsExpr(rhs) \/ IsVar(rhs))

Add  == Binary /\ Apply("add", PyAdd(lhs, rhs), 0)
Sub  == Binary /\ Apply("sub", PySub(lhs, rhs), 0)
Mul  == Scaling /\ Apply("mul", PyMul(lhs, rhs), 0)
Div  == /\ (IsExpr(lhs) \/ IsVar(lhs)) /\ ((IsNum(rhs) /\ IsWhole(rhs.n)) \/ IsStr(rhs))
        /\ Apply("truediv", PyDiv(lhs, rhs), 0)
Neg  == /\ (IsExpr(lhs) \/ IsVar(lhs)) /\ rhs = NoneOp
        /\ Apply("neg", PyNeg(lhs), 0)
CmpEq == Binary /\ Apply("eq", PyEq(lhs, rhs), 0)
CmpLe == Binary /\ Apply("le", PyLe(lhs, rhs), 0)
CmpGe == Binary /\ Apply("ge", PyGe(lhs, rhs), 0)

IAdd == /\ IsExpr(lhs) /\ (IsTerm(rhs) \/ IsStr(rhs))
        /\ Apply("iadd", InPlace(LinExpr_iadd(lhs.e, rhs), rhs), 0)
ISub == /\ IsExpr(lhs) /\ (IsTerm(rhs) \/ IsStr(rhs))
        /\ Apply("isub", InPlace(LinExpr_isub(lhs.e, rhs), rhs), 0)
IMul == /\ IsExpr(lhs) /\ ((IsNum(rhs) /\ IsWhole(rhs.n)) \/ IsStr(rhs))
        /\ Apply("imul",
                 IF IsStr(rhs) THEN Out(AssertionError, lhs, rhs)
                 ELSE InPlace(LinExpr_imul(lhs.e, rhs.n), rhs), 0)
IDiv == /\ IsExpr(lhs) /\ ((IsNum(rhs) /\ IsWhole(rhs.n)) \/ IsStr(rhs))
        /\ Apply("itruediv",
                 IF IsStr(rhs) THEN Out(AssertionError, lhs, rhs)
                 ELSE IF rhs.n = 0 THEN Out(ZeroDivisionError, lhs, rhs)
                 ELSE InPlace(LinExpr_itruediv(lhs.e, rhs.n), rhs), 0)

AddVar == /\ IsExpr(lhs) /\ IsVar(rhs)
          /\ \E c \in Nums : Apply("add_var", Method(add_var(lhs.e, rhs.idx, c), rhs), c)
AddConst == /\ IsExpr(lhs) /\ IsNum(rhs)
            /\ Apply("add_const", Method(add_const(lhs.e, rhs.n), rhs), 0)
AddExpr == /\ IsExpr(lhs) /\ IsExpr(rhs)
           /\ \E c \in Wholes : Apply("add_expr", Method(add_expr(lhs.e, rhs.e, c), rhs), c)
AddTerm == /\ IsExpr(lhs) /\ (IsTerm(rhs) \/ IsStr(rhs))
           /\ \E c \in Wholes : Apply("add_term", Method(add_term(lhs.e, rhs, c), rhs), c)
XSum == /\ IsTerm(lhs) /\ (IsTerm(rhs) \/ IsStr(rhs))
        /\ Apply("xsum", Out(ExprOp(xsum(<<lhs, rhs>>)), lhs, rhs), 0)
Equals == /\ IsExpr(lhs) /\ IsExpr(rhs)
          /\ Apply("equals",
                   Out(Operand("bool", 0, NewLinExpr, IF equals(lhs.e, rhs.e) THEN 1 ELSE 0),
                       lhs, rhs), 0)

NextAlgebra ==
    \/ Add \/ Sub \/ Mul \/ Div \/ Neg \/ CmpEq \/ CmpLe \/ CmpGe
    \/ IAdd \/ ISub \/ IMul \/ IDiv
    \/ AddVar \/ AddConst \/ AddExpr \/ AddTerm \/ XSum \/ Equals


----------------------------------------------------------------------------
(* Model: the registries, the search configuration and the status *)

\* mip.constants: optimization status
LOADED            == "LOADED"
OPTIMAL           == "OPTIMAL"
ERROR             == "ERROR"
INFEASIBLE        == "INFEASIBLE"
UNBOUNDED         == "UNBOUNDED"
FEASIBLE          == "FEASIBLE"
INT_INFEASIBLE    == "INT_INFEASIBLE"
NO_SOLUTION_FOUND == "NO_SOLUTION_FOUND"
CUTOFF            == "CUTOFF"
\* the statuses Solver.optimize returns
Returned == {OPTIMAL, ERROR, INFEASIBLE, UNBOUNDED, FEASIBLE, INT_INFEASIBLE,
             NO_SOLUTION_FOUND, CUTOFF}

\* mip.constants: variable types
CONTINUOUS == "C"
BINARY     == "B"
INTEGER    == "I"

\* mip.constants.INF and math.inf
INF == 2000000000

\* "C{:011d}".format(nc)
GenName(nc) ==
    IF nc < 10 THEN "C0000000000" \o ToString(nc) ELSE "C000000000" \o ToString(nc)

\* d[k] = v on a dict kept as a function
Put(d, k, v) == [x \in DOMAIN d \cup {k} |-> IF x = k THEN v ELSE d[x]]

Column(name, lb, ub, obj, var_type) ==
    [name |-> name, lb |-> lb, ub |-> ub, obj |-> obj, type |-> var_type]
Handle(idx, name) == [idx |-> idx, name |-> name]
Outcome(op, out, msg, asked, ret) ==
    [op |-> op, outcome |-> out, msg |-> msg, asked |-> asked, ret |-> ret]
Did(op) == Outcome(op, "ok", "", FALSE, "none")

\* Model.__init__ (with the backend as it is constructed)
ModelInit ==
    /\ status = LOADED
    /\ threads = 0
    /\ mcuts = 1
    /\ mvars = <<>>
    /\ constrs = <<>>
    /\ vars_by_name = <<>>
    /\ constrs_by_name = <<>>
    /\ start = <<>>
    /\ solver = [cols |-> <<>>, rows |-> <<>>, objective |-> NewLinExpr,
                 num_threads |-> 0,
                 limits |-> [max_seconds |-> INF, max_nodes |-> INF, max_solutions |-> INF],
                 start |-> <<>>, returned |-> "none"]
    /\ query = Did("init")

AlgUnchanged  == UNCHANGED <<lhs, rhs, result, call>>
PoolUnchanged == UNCHANGED <<cuts, pos, added>>

\* bounds of the model
MaxCols == 2
MaxRows == 1
\* the columns of the model whose status is followed
MaxStatusCols == 1

\* Model.add_var
Model_add_var(name, lb, ub, obj, var_type) ==
    LET lb1   == IF var_type = BINARY THEN 0 ELSE lb
        ub1   == IF var_type = BINARY THEN One ELSE ub
        name1 == IF name = "" THEN GenName(Len(solver.cols)) ELSE name
        idx   == Len(solver.cols)
    IN  /\ Len(solver.cols) < MaxCols /\ Len(mvars) < MaxCols
        /\ solver' = [solver EXCEPT !.cols = Append(@, Column(name1, lb1, ub1, obj, var_type))]
        /\ mvars' = Append(mvars, Handle(idx, name1))
        /\ vars_by_name' = Put(vars_by_name, name1, Len(mvars) + 1)
        /\ query' = Did("add_var")
        /\ UNCHANGED <<status, threads, mcuts, constrs, constrs_by_name, start>>
        /\ AlgUnchanged /\ PoolUnchanged

\* Model.add_constr
Model_add_constr(lin_expr, name) ==
    /\ Len(solver.rows) < MaxRows /\ Len(constrs) < MaxRows
    /\ IF lin_expr.kind = "bool"
       THEN UNCHANGED <<solver, constrs, constrs_by_name>>
       ELSE /\ solver' = [solver EXCEPT !.rows = Append(@, [name |-> name, expr |-> lin_expr.e])]
            /\ constrs' = Append(constrs, Handle(Len(solver.rows), name))
            /\ constrs_by_name' = Put(constrs_by_name, name, Len(constrs) + 1)
    /\ query' = Did("add_constr")
    /\ UNCHANGED <<status, threads, mcuts, mvars, vars_by_name, start>>
    /\ AlgUnchanged /\ PoolUnchanged

\* Model.objective (setter)
Model_set_objective(expr) ==
    /\ solver' = [solver EXCEPT !.objective =
                    IF expr.kind = "num" THEN LinExprInit(<<>>, <<>>, expr.n, NoSense)
                    ELSE IF expr.kind = "Var" THEN LinExprInit(<<expr.idx>>, <<One>>, 0, NoSense)
                    ELSE IF expr.kind = "LinExpr" THEN expr.e
                    ELSE @]
    /\ query' = Did("objective")
    /\ UNCHANGED <<status, threads, mcuts, mvars, constrs, vars_by_name, constrs_by_name, start>>
    /\ AlgUnchanged /\ PoolUnchanged

\* Model.relax
Model_relax ==
    /\ solver' = [solver EXCEPT !.cols =
                    [i \in 1..Len(@) |->
                        IF @[i].type = BINARY \/ @[i].type = INTEGER
                        THEN [@[i] EXCEPT !.type = CONTINUOUS] ELSE @[i]]]
    /\ query' = Did("relax")
    /\ UNCHANGED <<status, threads, mcuts, mvars, constrs, vars_by_name, constrs_by_name, start>>
    /\ AlgUnchanged /\ PoolUnchanged

\* the handles Model.read appends for the columns (rows) the backend now holds
RECURSIVE ReadHandles(_, _, _)
ReadHandles(handles, items, i) ==
    IF i > Len(items) THEN handles
    ELSE ReadHandles(Append(handles, Handle(i - 1, items[i].name)), items, i + 1)
RECURSIVE ReadNames(_, _, _, _)
ReadNames(byname, items, i, base) ==
    IF i > Len(items) THEN byname
    ELSE ReadNames(Put(byname, items[i].name, base + i), items, i + 1, base)

\* Model.read: the backend loads the file's columns and rows
Model_read(file) ==
    /\ Len(mvars) + Len(file.cols) <= MaxCols
    /\ Len(constrs) + Len(file.rows) <= MaxRows
    /\ solver' = [solver EXCEPT !.cols = file.cols, !.rows = file.rows]
    /\ mvars' = ReadHandles(mvars, file.cols, 1)
    /\ vars_by_name' = ReadNames(vars_by_name, file.cols, 1, Len(mvars))
    /\ constrs' = ReadHandles(constrs, file.rows, 1)
    /\ constrs_by_name' = ReadNames(constrs_by_name, file.rows, 1, Len(constrs))
    /\ query' = Did("read")
    /\ UNCHANGED <<status, threads, mcuts, start>>
    /\ AlgUnchanged /\ PoolUnchanged

\* Model.threads (setter)
Model_set_threads(th) ==
    /\ threads' = th
    /\ query' = Did("threads")
    /\ UNCHANGED <<status, mcuts, mvars, constrs, vars_by_name, constrs_by_name, start, solver>>
    /\ AlgUnchanged /\ PoolUnchanged

\* Model.cuts (setter)
Model_set_cuts(c) ==
    /\ mcuts' = c
    /\ query' = IF c < 0 \/ c > 3 THEN Outcome("cuts", "warning", "", FALSE, "none")
                ELSE Did("cuts")
    /\ UNCHANGED <<status, threads, mvars, constrs, vars_by_name, constrs_by_name, start, solver>>
    /\ AlgUnchanged /\ PoolUnchanged

\* Model.max_seconds, Model.max_nodes, Model.max_solutions (setters)
Model_set_limit(which, v) ==
    /\ solver' = [solver EXCEPT !.limits[which] = v]
    /\ query' = Did(which)
    /\ UNCHANGED <<status, threads, mcuts, mvars, constrs, vars_by_name, constrs_by_name, start>>
    /\ AlgUnchanged /\ PoolUnchanged

\* Model.start (setter)
Model_set_start(start_sol) ==
    /\ start' = start_sol
    /\ solver' = [solver EXCEPT !.start = start_sol]
    /\ query' = Did("start")
    /\ UNCHANGED <<status, threads, mcuts, mvars, constrs, vars_by_name, constrs_by_name>>
    /\ AlgUnchanged /\ PoolUnchanged

\* Model.optimize with the status recorded only under "if self.__threads != 0"
Model_optimize_StatusUnderIf(max_seconds, max_nodes, max_solutions, ret) ==
    /\ solver' = [solver EXCEPT
                    !.num_threads = IF threads # 0 THEN threads ELSE @,
                    !.limits = [max_seconds |-> max_seconds, max_nodes |-> max_nodes,
                                max_solutions |-> max_solutions],
                    !.returned = ret]
    /\ status' = IF threads # 0 THEN ret ELSE status
    /\ query' = Outcome("optimize", "ok", "", FALSE, ret)
    /\ UNCHANGED <<threads, mcuts, mvars, constrs, vars_by_name, constrs_by_name, start>>
    /\ AlgUnchanged /\ PoolUnchanged

\* Model.optimize: the backend returns the status ret
Model_optimize(max_seconds, max_nodes, max_solutions, ret) ==
    /\ solver' = [solver EXCEPT
                    !.num_threads = IF threads # 0 THEN threads ELSE @,
                    !.limits = [max_seconds |-> max_seconds, max_nodes |-> max_nodes,
                                max_solutions |-> max_solutions],
                    !.returned = ret]
    /\ status' = ret
    /\ query' = Outcome("optimize", "ok", "", FALSE, ret)
    /\ UNCHANGED <<threads, mcuts, mvars, constrs, vars_by_name, constrs_by_name, start>>
    /\ AlgUnchanged /\ PoolUnchanged

\* the message of the SolutionNotAvailable that Var.x and Var.xi raise in
\* status st, "" when no branch raises
XMessage(st) ==
    IF st = LOADED THEN "Model was not optimized, solution not available."
    ELSE IF st = INFEASIBLE \/ st = CUTOFF THEN "Infeasible model, solution not available."
    ELSE IF st = UNBOUNDED THEN "Unbounded model, solution not available."
    ELSE IF st = NO_SOLUTION_FOUND THEN "Solution not found during optimization."
    ELSE ""

\* the message of the SolutionNotAvailable that Var.rc raises in status st
RcMessage(st) == IF st # OPTIMAL THEN "Solution not available." ELSE ""

\* the message a solution query raises in status st (Constr.pi raises nothing)
Message(op, st) ==
    IF op = "rc" THEN RcMessage(st)
    ELSE IF op = "pi" THEN ""
    ELSE XMessage(st)

\* a solution query in the current status: the exception raised, or the
\* backend asked for the value
SolutionQuery(op) ==
    IF Message(op, status) # ""
    THEN Outcome(op, "SolutionNotAvailable", Message(op, status), FALSE, "none")
    ELSE Outcome(op, "value", "", TRUE, "none")

\* Var.x, of the variable at position v of Model.vars
Var_x(v) ==
    /\ v \in 1..Len(mvars)
    /\ query' = SolutionQuery("x")
    /\ UNCHANGED <<status, threads, mcuts, mvars, constrs, vars_by_name, constrs_by_name,
                   start, solver>>
    /\ AlgUnchanged /\ PoolUnchanged

\* Var.xi
Var_xi(v, i) ==
    /\ v \in 1..Len(mvars)
    /\ query' = SolutionQuery("xi")
    /\ UNCHANGED <<status, threads, mcuts, mvars, constrs, vars_by_name, constrs_by_name,
                   start, solver>>
    /\ AlgUnchanged /\ PoolUnchanged

\* Var.rc
Var_rc(v) ==
    /\ v \in 1..Len(mvars)
    /\ query' = SolutionQuery("rc")
    /\ UNCHANGED <<status, threads, mcuts, mvars, constrs, vars_by_name, constrs_by_name,
                   start, solver>>
    /\ AlgUnchanged /\ PoolUnchanged

\* Constr.pi, of the constraint at position c of Model.constrs
Constr_pi(c) ==
    /\ c \in 1..Len(constrs)
    /\ query' = SolutionQuery("pi")
    /\ UNCHANGED <<status, threads, mcuts, mvars, constrs, vars_by_name, constrs_by_name,
                   start, solver>>
    /\ AlgUnchanged /\ PoolUnchanged

\* the column of the backend that the variable at position v of Model.vars names
ColOf(v) == mvars[v].idx + 1

\* Var.lb (setter)
Var_set_lb(v, value) ==
    /\ v \in 1..Len(mvars)
    /\ ColOf(v) \in 1..Len(solver.cols)
    /\ solver' = [solver EXCEPT !.cols[ColOf(v)].lb = value]
    /\ query' = Did("lb")
    /\ UNCHANGED <<status, threads, mcuts, mvars, constrs, vars_by_name, constrs_by_name, start>>
    /\ AlgUnchanged /\ PoolUnchanged

\* Var.ub (setter)
Var_set_ub(v, value) ==
    /\ v \in 1..Len(mvars)
    /\ ColOf(v) \in 1..Len(solver.cols)
    /\ solver' = [solver EXCEPT !.cols[ColOf(v)].ub = value]
    /\ query' = Did("ub")
    /\ UNCHANGED <<status, threads, mcuts, mvars, constrs, vars_by_name, constrs_by_name, start>>
    /\ AlgUnchanged /\ PoolUnchanged

\* Var.type (setter): assert value in (BINARY, CONTINUOUS, INTEGER)
Var_set_type(v, value) ==
    /\ v \in 1..Len(mvars)
    /\ ColOf(v) \in 1..Len(solver.cols)
    /\ IF value \in {BINARY, CONTINUOUS, INTEGER}
       THEN /\ solver' = [solver EXCEPT !.cols[ColOf(v)].type = value]
            /\ query' = Did("type")
       ELSE /\ solver' = solver
            /\ query' = Outcome("type", "AssertionError", "", FALSE, "none")
    /\ UNCHANGED <<status, threads, mcuts, mvars, constrs, vars_by_name, constrs_by_name, start>>
    /\ AlgUnchanged /\ PoolUnchanged

\* Model.copy: v.var_type is no attribute of Var, and get_objective_const is
\* none of Model, so the call raises AttributeError in the first round of the
\* loop over the variables or, without variables, after the loops; the copy
\* under construction is lost
Model_copy ==
    /\ query' = Outcome("copy", "AttributeError",
                        IF mvars # <<>> THEN "var_type" ELSE "get_objective_const",
                        FALSE, "none")
    /\ UNCHANGED <<status, threads, mcuts, mvars, constrs, vars_by_name, constrs_by_name,
                   start, solver>>
    /\ AlgUnchanged /\ PoolUnchanged

\* Model.get_var_by_name: a property whose getter takes a second parameter, so
\* reading the attribute calls the getter without name
Model_get_var_by_name(name) ==
    /\ query' = Outcome("get_var_by_name", "TypeError", "", FALSE, "none")
    /\ UNCHANGED <<status, threads, mcuts, mvars, constrs, vars_by_name, constrs_by_name,
                   start, solver>>
    /\ AlgUnchanged /\ PoolUnchanged


----------------------------------------------------------------------------
(* CutPool *)

\* Python's hash of an int: hash(-1) is -2
HashInt(i) == IF i = -1 THEN -2 ELSE i
\* Python's hash of a number that is an int or a float: hash(-1.0) is hash(-2.0)
HashNum(n) == IF n = -One THEN -2 * One ELSE n

\* LinExpr.__hash__: the tuple hashed, element by element (the hash of a tuple
\* is a function of its elements' hashes, taken here to be one-to-one)
LinExpr_hash(e) ==
    <<[i \in 1..Len(e.expr) |-> HashInt(e.expr[i][1])],
      [i \in 1..Len(e.expr) |-> HashNum(e.expr[i][2])],
      HashNum(e.const), e.sense>>

\* self.__pos[hcode] of a defaultdict(list)
Bucket(p, h) == IF h \in DOMAIN p THEN p[h] ELSE <<>>

\* the scan of CutPool.add: some position of the bucket holds a cut that equals cut
Repeated(store, bucket, cut) ==
    \E j \in 1..Len(bucket) : equals(store[bucket[j] + 1], cut)

\* bound of the pool
MaxCalls == 4

\* CutPool.add inserting the cut at the head of the store
CutPool_add_at_head(cut) ==
    LET hcode == LinExpr_hash(cut)
        l     == Bucket(pos, hcode)
        found == Repeated(cuts, l, cut)
    IN  /\ added.calls < MaxCalls
        /\ IF found
           THEN /\ pos' = Put(pos, hcode, l)
                /\ cuts' = cuts
           ELSE /\ pos' = Put(pos, hcode, Append(l, Len(cuts)))
                /\ cuts' = <<cut>> \o cuts
        /\ added' = [calls |-> added.calls + 1, cut |-> cut, ret |-> ~found,
                     before |-> Len(cuts),
                     prev_cut |-> added.cut, prev_ret |-> added.ret]
        /\ AlgUnchanged
        /\ UNCHANGED <<status, threads, mcuts, mvars, constrs, vars_by_name,
                       constrs_by_name, start, solver, query>>

\* CutPool.add
CutPool_add(cut) ==
    LET hcode == LinExpr_hash(cut)
        l     == Bucket(pos, hcode)
        found == Repeated(cuts, l, cut)
    IN  /\ added.calls < MaxCalls
        /\ IF found
           THEN /\ pos' = Put(pos, hcode, l)
                /\ cuts' = cuts
           ELSE /\ pos' = Put(pos, hcode, Append(l, Len(cuts)))
                /\ cuts' = Append(cuts, cut)
        /\ added' = [calls |-> added.calls + 1, cut |-> cut, ret |-> ~found,
                     before |-> Len(cuts),
                     prev_cut |-> added.cut, prev_ret |-> added.ret]
        /\ AlgUnchanged
        /\ UNCHANGED <<status, threads, mcuts, mvars, constrs, vars_by_name,
                       constrs_by_name, start, solver, query>>

\* the cuts handed to the pool: constraints over one or two variables
CutInputs ==
    {LinExprInit(<<0>>, <<c>>, k, s) :
        c \in {-One, -2 * One, One}, k \in {0, -One}, s \in {LESS_OR_EQUAL}}
    \cup {LinExprInit(vs, <<One, One>>, -One, s) :
            vs \in {<<0, 1>>, <<1, 0>>}, s \in {LESS_OR_EQUAL, GREATER_OR_EQUAL}}
    \cup {LinExprInit(<<0>>, <<One>>, -2 * One, LESS_OR_EQUAL)}

----------------------------------------------------------------------------
(* Specifications *)

\* the expression algebra: operands constructed, one operator applied
InitAlgebra == InitOperands /\ PoolInit /\ ModelInit
SpecAlgebra == InitAlgebra /\ [][NextAlgebra]_vars

\* the cut pool
InitPool == lhs = NoneOp /\ rhs = NoneOp /\ result = NoneOp /\ call = NewCall
            /\ PoolInit /\ ModelInit
NextPool == \E cut \in CutInputs : CutPool_add(cut)
SpecPool == InitPool /\ [][NextPool]_vars

\* the model
ModelExprs == {LinExprInit(<<0>>, <<One>>, -One, LESS_OR_EQUAL)}
Files == {[cols |-> <<Column("x", 0, INF, 0, INTEGER)>>, rows |-> <<>>]}
Limits == {INF, One}

\* the thread counts handed to the threads setter (0: the backend's default)
ThreadCounts == {0, 1}

InitModel == lhs = NoneOp /\ rhs = NoneOp /\ result = NoneOp /\ call = NewCall
             /\ PoolInit /\ ModelInit
NextModel ==
    \/ \E t \in {CONTINUOUS, BINARY} :
          Len(mvars) < MaxStatusCols /\ Model_add_var("", 0, INF, 0, t)
    \/ \E x \in ModelExprs : Model_add_constr(ExprOp(x), "")
    \/ \E x \in ModelExprs : Model_set_objective(ExprOp(x))
    \/ Model_relax
    \/ \E f \in Files : Len(mvars) + Len(f.cols) <= MaxStatusCols /\ Model_read(f)
    \/ \E th \in ThreadCounts : Model_set_threads(th)
    \/ \E c \in {4} : Model_set_cuts(c)
    \/ \E w \in {"max_seconds"} : Model_set_limit(w, One)
    \/ \E s \in {<<>>, <<<<0, One>>>>} : Model_set_start(s)
    \/ \E ms \in Limits, ret \in Returned : Model_optimize(ms, INF, INF, ret)
    \/ \E v \in 1..MaxStatusCols : Var_x(v)
    \/ \E v \in 1..MaxStatusCols : Var_xi(v, 0)
    \/ \E v \in 1..MaxStatusCols : Var_rc(v)
    \/ \E c \in 1..MaxRows : Constr_pi(c)
SpecModel == InitModel /\ [][NextModel]_vars

\* the variables of a model: names, bounds and kinds
Names == {"", "x", GenName(1)}
NextVars ==
    \/ \E n \in Names, lb \in {0, -One}, t \in {CONTINUOUS, BINARY} :
          Model_add_var(n, lb, INF, 0, t)
    \/ \E v \in 1..MaxCols, value \in {0, -One} : Var_set_lb(v, value)
    \/ \E v \in 1..MaxCols, value \in {One, INF} : Var_set_ub(v, value)
    \/ \E v \in 1..MaxCols, value \in {CONTINUOUS, BINARY, INTEGER, "X"} : Var_set_type(v, value)
    \/ Model_copy
    \/ \E n \in {"x"} : Model_get_var_by_name(n)
SpecVars == InitModel /\ [][NextVars]_vars


----------------------------------------------------------------------------
(* Claims about the model's status (SpecModel) *)

\* C1 (as claimed): Var.x and Var.xi return a value only when the status is
\* OPTIMAL or FEASIBLE; in every other status the query raises
\* SolutionNotAvailable and the backend is not asked for a value.
C1_ValueOnlyWhenSolved ==
    query.op \in {"x", "xi"} =>
        IF status \in {OPTIMAL, FEASIBLE}
        THEN query.outcome = "value"
        ELSE query.outcome = "SolutionNotAvailable" /\ ~query.asked

\* C2: the status is LOADED as long as optimize was never called, and otherwise
\* the status the backend returned for the most recent optimize call, which is
\* also what that call returned to its caller; no other operation changes it.
C2_StatusIsLastReturned ==
    /\ status = (IF solver.returned = "none" THEN LOADED ELSE solver.returned)
    /\ query.op = "optimize" => query.ret = status

\* C2 witness: after an optimize that returned INFEASIBLE, a file was read and
\* the status is still INFEASIBLE
C2_Witness ==
    /\ solver.returned = INFEASIBLE
    /\ query.op = "read"
    /\ status = INFEASIBLE


----------------------------------------------------------------------------
(* Claims about the cut pool (SpecPool) and LinExpr.equals (SpecAlgebra) *)

\* the expression-equality contract: equal constant, equal sense, equal term
\* count, the same variables, coefficients within 1e-12
EqualsContract(a, b) ==
    /\ a.const = b.const
    /\ a.sense = b.sense
    /\ Len(a.expr) = Len(b.expr)
    /\ Keys(a.expr) = Keys(b.expr)
    /\ \A v \in Keys(a.expr) : Abs(Coef(a.expr, v) - Coef(b.expr, v)) <= 0

\* a cut of the pool, as it was before the last call, equals c under the contract
StoredBefore(c) == \E i \in 1..added.before : EqualsContract(cuts[i], c)

\* C3 (as claimed): add(c) returns false only when the pool already stores a cut
\* that equals c under the equality contract; a cut whose hash collides with a
\* stored cut of the same constant, sense and term count but a different
\* coefficient is appended and add returns true.
C3_RejectsOnlyEqualCuts ==
    added.calls >= 1 =>
        /\ ~added.ret => StoredBefore(added.cut)
        /\ (/\ ~StoredBefore(added.cut)
            /\ \E i \in 1..added.before :
                  /\ LinExpr_hash(cuts[i]) = LinExpr_hash(added.cut)
                  /\ cuts[i].const = added.cut.const
                  /\ cuts[i].sense = added.cut.sense
                  /\ Len(cuts[i].expr) = Len(added.cut.expr))
           => added.ret /\ cuts = Append(SubSeq(cuts, 1, added.before), added.cut)

\* the same variable-to-coefficient mapping, constant and sense
SameContent(a, b) ==
    /\ a.const = b.const
    /\ a.sense = b.sense
    /\ Keys(a.expr) = Keys(b.expr)
    /\ \A v \in Keys(a.expr) : Coef(a.expr, v) = Coef(b.expr, v)

\* C4 (as claimed): the hash does not depend on the order in which the terms
\* were inserted, so a cut with the same content as the cut accepted by the
\* call before, built in another order, is rejected and nothing is stored.
C4_HashIgnoresInsertionOrder ==
    (/\ added.calls >= 2
     /\ added.prev_ret
     /\ SameContent(added.prev_cut, added.cut))
    => /\ LinExpr_hash(added.prev_cut) = LinExpr_hash(added.cut)
       /\ ~added.ret
       /\ Len(cuts) = added.before

\* C5 (as claimed): a cut not yet in the pool is accepted and raises the number
\* of stored cuts by one; submitted again right away it is rejected and the
\* number of stored cuts stays.
C5_AddTwice ==
    /\ (added.calls >= 1 /\ ~StoredBefore(added.cut))
       => added.ret /\ Len(cuts) = added.before + 1
    /\ (added.calls >= 2 /\ added.prev_ret /\ added.prev_cut = added.cut)
       => ~added.ret /\ Len(cuts) = added.before

\* C6 (as claimed): equals(a, b) is true only if a and b have equal constant,
\* sense and term count and every shared variable's coefficients are within
\* 1e-12; with equal constant, sense and variables and some coefficient that
\* differs by more, equals is false.
C6_EqualsComparesCoefficients ==
    call.op = "equals" =>
        LET a == call.lhs.e
            b == call.rhs.e
        IN  /\ result.n = 1 =>
                /\ a.const = b.const
                /\ a.sense = b.sense
                /\ Len(a.expr) = Len(b.expr)
                /\ \A v \in Keys(a.expr) \cap Keys(b.expr) :
                      Abs(Coef(a.expr, v) - Coef(b.expr, v)) <= 0
            /\ (/\ a.const = b.const
                /\ a.sense = b.sense
                /\ Keys(a.expr) = Keys(b.expr)
                /\ \E v \in Keys(a.expr) : Abs(Coef(a.expr, v) - Coef(b.expr, v)) > 0)
               => result.n = 0


----------------------------------------------------------------------------
(* Claims about the operators of the algebra (SpecAlgebra) *)

\* the coefficient of variable v in an operand, and the operand's constant
CoefOf(o, v) ==
    IF o.kind = "Var" THEN (IF o.idx = v THEN One ELSE 0)
    ELSE IF o.kind = "LinExpr" THEN Coef(o.e.expr, v)
    ELSE 0
ConstOf(o) ==
    IF o.kind = "num" THEN o.n
    ELSE IF o.kind = "LinExpr" THEN o.e.const
    ELSE 0

\* the sense a comparison operator stands for
SenseOf(op) == IF op = "eq" THEN EQUAL ELSE IF op = "le" THEN LESS_OR_EQUAL ELSE GREATER_OR_EQUAL
\* <= for >= and >= for <=
Flip(s) ==
    IF s = LESS_OR_EQUAL THEN GREATER_OR_EQUAL
    ELSE IF s = GREATER_OR_EQUAL THEN LESS_OR_EQUAL
    ELSE s

\* a comparison of two operands that are each a Var, a LinExpr without sense or a number
Compared ==
    /\ call.op \in {"eq", "le", "ge"}
    /\ \A o \in {call.lhs, call.rhs} :
          \/ o.kind \in {"Var", "num"}
          \/ o.kind = "LinExpr" /\ o.e.sense = NoSense

\* e holds exactly the terms and the constant of a - b
IsDifference(e, a, b) ==
    /\ e.const = ConstOf(a) - ConstOf(b)
    /\ \A v \in Vars : Coef(e.expr, v) = CoefOf(a, v) - CoefOf(b, v)

\* e holds the terms and the constant of a - b, without the terms of variables
\* of both a and b whose coefficients cancel to within 1e-8
IsCancelledDifference(e, a, b) ==
    /\ e.const = ConstOf(a) - ConstOf(b)
    /\ \A v \in Vars :
          Coef(e.expr, v) =
              IF /\ CoefOf(a, v) # 0
                 /\ CoefOf(b, v) # 0
                 /\ Abs(CoefOf(a, v) - CoefOf(b, v)) <= EPS
              THEN 0
              ELSE CoefOf(a, v) - CoefOf(b, v)

\* C7 (as claimed): lhs == rhs, lhs <= rhs and lhs >= rhs return an expression
\* whose terms and constant are exactly those of lhs - rhs and whose sense is
\* '=', '<=' and '>=' respectively.
C7_ComparisonIsLhsMinusRhs ==
    Compared =>
        /\ result.kind = "LinExpr"
        /\ IsDifference(result.e, call.lhs, call.rhs)
        /\ result.e.sense = SenseOf(call.op)

\* the comparisons that Python or Var hands to the other operand's operator
Mirrored ==
    \/ call.lhs.kind = "num"
    \/ call.lhs.kind = "Var" /\ call.rhs.kind = "LinExpr"

\* C7 (amended): when lhs is a LinExpr, or lhs is a Var and rhs a Var or a
\* number, the comparison returns lhs - rhs with the sense of the operator;
\* when lhs is a number, or lhs is a Var and rhs a LinExpr, it returns
\* rhs - lhs with the mirrored sense ('=' stays, '<=' and '>=' swap).  In both
\* cases a variable of both operands whose coefficients cancel to within 1e-8
\* has no term in the result.
C7_ComparisonIsDifferenceOrMirror ==
    Compared =>
        /\ result.kind = "LinExpr"
        /\ IF Mirrored
           THEN /\ IsCancelledDifference(result.e, call.rhs, call.lhs)
                /\ result.e.sense = Flip(SenseOf(call.op))
           ELSE /\ IsCancelledDifference(result.e, call.lhs, call.rhs)
                /\ result.e.sense = SenseOf(call.op)

\* x <= (a LinExpr without sense and with a term) has returned rhs - x >= 0
C7_Witness ==
    /\ call.op = "le"
    /\ call.lhs.kind = "Var"
    /\ call.rhs.kind = "LinExpr"
    /\ call.rhs.e.sense = NoSense
    /\ call.rhs.e.expr # <<>>
    /\ result.kind = "LinExpr"
    /\ result.e.sense = GREATER_OR_EQUAL
    /\ CoefOf(result, call.lhs.idx) = CoefOf(call.rhs, call.lhs.idx) - One

\* the LinExpr operand of a scaling and the scalar k, as they were handed
Receiver == IF call.lhs.kind = "LinExpr" THEN call.lhs ELSE call.rhs
Scalar ==
    IF call.op = "neg" THEN -One
    ELSE IF call.lhs.kind = "LinExpr" THEN call.rhs.n ELSE call.lhs.n

\* C8 (as claimed): an expression multiplied by a scalar k (unary minus: k = -1)
\* gives a result with every coefficient and the constant multiplied by k; the
\* sense of the result is flipped when k is negative and the sense is <= or >=,
\* and kept when k is positive or the sense is '=' or none.
C8_NegativeScalingFlipsSense ==
    (/\ call.op \in {"mul", "neg", "imul"}
     /\ Receiver.kind = "LinExpr"
     /\ call.lhs.kind # "str" /\ call.rhs.kind # "str") =>
        /\ result.kind = "LinExpr"
        /\ result.e.const = NumMul(Receiver.e.const, Scalar)
        /\ Scalar # 0 =>
              \A v \in Vars : Coef(result.e.expr, v) = NumMul(Coef(Receiver.e.expr, v), Scalar)
        /\ (Scalar < 0 /\ Receiver.e.sense \in {LESS_OR_EQUAL, GREATER_OR_EQUAL})
              => result.e.sense = Flip(Receiver.e.sense)
        /\ (Scalar > 0 \/ Receiver.e.sense \in {EQUAL, NoSense})
              => result.e.sense = Receiver.e.sense

\* C9 (as claimed): +, -, unary minus, * and / by a scalar, ==, <= and >= leave
\* both operands with the terms, constant and sense they had before the call.
C9_OperatorsLeaveOperands ==
    call.op \in {"add", "sub", "neg", "mul", "truediv", "eq", "le", "ge"} =>
        /\ lhs = call.lhs
        /\ rhs = call.rhs

\* no stored coefficient within 1e-8 of zero
Canonical(o) ==
    o.kind = "LinExpr" => \A i \in 1..Len(o.e.expr) : Abs(o.e.expr[i][2]) > EPS

\* C10 (as claimed): the operators, add_var, add_expr, add_term and xsum,
\* applied to canonical expressions with any scalar or coefficient, leave and
\* return expressions that store no term whose coefficient is within 1e-8 of
\* zero.
C10_AlgebraGivesCanonical ==
    (/\ call.op \notin {"new", "equals"}
     /\ Canonical(call.lhs)
     /\ Canonical(call.rhs))
    => Canonical(lhs) /\ Canonical(rhs) /\ Canonical(result)


\* C11: add_var(v, c) removes the term v when v is a term and its coefficient
\* plus c lies within [-1e-8, 1e-8], makes the coefficient the sum when v is a
\* term and the sum lies outside the band, and inserts the term v with
\* coefficient exactly c when v is no term yet; every other term, the constant
\* and the sense stay as they were.
C11_AddVarBand ==
    call.op = "add_var" =>
        LET e == call.lhs.e
            r == lhs.e
            v == call.rhs.idx
            c == call.coeff
        IN  /\ r.const = e.const
            /\ r.sense = e.sense
            /\ \A w \in Vars \ {v} :
                  /\ HasKey(r.expr, w) = HasKey(e.expr, w)
                  /\ Coef(r.expr, w) = Coef(e.expr, w)
            /\ IF HasKey(e.expr, v)
               THEN IF -EPS <= Lookup(e.expr, v) + c /\ Lookup(e.expr, v) + c <= EPS
                    THEN ~HasKey(r.expr, v)
                    ELSE HasKey(r.expr, v) /\ Lookup(r.expr, v) = Lookup(e.expr, v) + c
               ELSE HasKey(r.expr, v) /\ Lookup(r.expr, v) = c

\* add_var has removed a term whose sum was at the edge of the band, next to
\* another term that stayed
C11_Witness ==
    /\ call.op = "add_var"
    /\ HasKey(call.lhs.e.expr, call.rhs.idx)
    /\ Abs(Lookup(call.lhs.e.expr, call.rhs.idx) + call.coeff) = EPS
    /\ ~HasKey(lhs.e.expr, call.rhs.idx)
    /\ Len(lhs.e.expr) = 1
    /\ Len(call.lhs.e.expr) = 2


----------------------------------------------------------------------------
(* Claims about the solution queries (SpecModel) *)

\* the statuses in which no solution can be queried
Unanswerable == {LOADED, INFEASIBLE, CUTOFF, UNBOUNDED, NO_SOLUTION_FOUND}

\* C12 (as claimed): when Var.x, Var.xi or Var.rc raises SolutionNotAvailable
\* in one of the statuses Loaded, Infeasible, Cutoff, Unbounded and
\* NoSolutionFound, the reason raised is one the same query raises in no other
\* of these five statuses.
C12_ReasonIdentifiesStatus ==
    (/\ query.op \in {"x", "xi", "rc"}
     /\ query.outcome = "SolutionNotAvailable"
     /\ status \in Unanswerable)
    => \A st \in Unanswerable \ {status} : Message(query.op, st) # query.msg

\* C13 (as claimed): Constr.pi raises SolutionNotAvailable, without asking the
\* backend for a value, whenever the status is Loaded, Infeasible, Cutoff,
\* Unbounded or NoSolutionFound.
C13_PiOnlyWhenSolved ==
    (query.op = "pi" /\ status \in Unanswerable)
    => query.outcome = "SolutionNotAvailable" /\ ~query.asked


----------------------------------------------------------------------------
(* Claims about the variables of a model (SpecVars) *)

\* C14 (as claimed): copy() completes and returns a model with as many
\* variables and constraints as the original and the same objective constant.
C14_CopyCompletes ==
    query.op = "copy" =>
        /\ query.outcome = "ok"
        /\ query.ret.num_cols = Len(mvars)
        /\ query.ret.num_rows = Len(constrs)
        /\ query.ret.objective_const = solver.objective.const

C17_BinaryBounds ==
    \A i \in 1..Len(solver.cols) :
        solver.cols[i].type = BINARY => solver.cols[i].lb = 0 /\ solver.cols[i].ub = One


----------------------------------------------------------------------------
(* Claims about the search configuration (SpecModel) *)

\* C15 (as claimed): an assignment to Model.cuts outside 0..3 raises nothing
\* and keeps the value stored before, so Model.cuts is always a value in 0..3.
C15_CutsStayValid ==
    /\ mcuts \in 0..3
    /\ query.op = "cuts" => query.outcome \in {"ok", "warning"}

\* C20 (as claimed): every optimize call leaves the backend with the thread
\* count Model.threads has at that moment (0 included, also after an earlier
\* search with another count) and with exactly the limits handed to the call.
C20_OptimizePushesThreadsAndLimits ==
    [][\A ms \in Limits, ret \in Returned :
          Model_optimize(ms, INF, INF, ret) =>
              /\ solver'.num_threads = threads
              /\ solver'.limits = [max_seconds |-> ms, max_nodes |-> INF,
                                   max_solutions |-> INF]]_vars

\* C18 (as claimed): every operator of the expression algebra fails fast when an
\* operand is neither a Var, nor a LinExpr, nor a number: +, -, *, /, +=, -=,
\* *=, /=, add_term, xsum and the Var operators all end in an error and never
\* return a result computed without the operand.
C18_ForeignOperandFailsFast ==
    (/\ call.op \in {"add", "sub", "mul", "truediv", "iadd", "isub", "imul",
                     "itruediv", "add_term", "xsum"}
     /\ (call.lhs.kind = "str" \/ call.rhs.kind = "str")) =>
        result.kind \in {"AssertionError", "TypeError"}

\* the integer values a variable is given, and the assignments of them
Values == {-1, 0, 1}
Assignments == [Vars -> Values]

\* sum of coefficient * value over the stored terms of a dict
RECURSIVE TermsValue(_, _)
TermsValue(d, val) ==
    IF d = <<>> THEN 0
    ELSE d[1][2] * val[d[1][1]] + TermsValue(Tail(d), val)

\* value of an operand under an assignment
ValueOf(o, val) ==
    IF o.kind = "num" THEN o.n
    ELSE IF o.kind = "Var" THEN One * val[o.idx]
    ELSE TermsValue(o.e.expr, val) + o.e.const

\* (sum of coefficient * value + constant) s 0 for the sense s of e
Holds(e, val) ==
    LET x == TermsValue(e.expr, val) + e.const
    IN  IF e.sense = EQUAL THEN x = 0
        ELSE IF e.sense = LESS_OR_EQUAL THEN x <= 0
        ELSE IF e.sense = GREATER_OR_EQUAL THEN x >= 0
        ELSE FALSE

\* value(lhs) op value(rhs)
Written(op, a, b) ==
    IF op = "eq" THEN a = b ELSE IF op = "le" THEN a <= b ELSE a >= b

\* the constraint returned means what was written, under every assignment
MeansWhatWasWritten ==
    /\ result.kind = "LinExpr"
    /\ \A val \in Assignments :
          Holds(result.e, val)
              <=> Written(call.op, ValueOf(call.lhs, val), ValueOf(call.rhs, val))

\* C19 (as claimed): for every combination of operand kinds (Var, LinExpr
\* without sense, number, on either side) and every assignment of bounded
\* integer values to the variables, the expression E with sense s returned by a
\* comparison satisfies (sum of coefficient * value + constant) s 0 exactly when
\* value(lhs) op value(rhs) holds.
C19_ComparisonMeansWhatWasWritten ==
    Compared => MeansWhatWasWritten

\* a variable of both operands whose coefficients differ, by at most EPS
NearlyCancels(v) ==
    /\ CoefOf(call.lhs, v) # 0
    /\ CoefOf(call.rhs, v) # 0
    /\ CoefOf(call.lhs, v) # CoefOf(call.rhs, v)
    /\ Abs(CoefOf(call.lhs, v) - CoefOf(call.rhs, v)) <= EPS

\* C19 (amended): the comparison means what was written for every combination
\* of operand kinds and every assignment, provided no variable of both operands
\* has coefficients that differ by a non-zero amount of at most 1e-8 (the term
\* of such a variable is dropped from the result).
C19_MeansWhatWasWrittenUpToEPS ==
    (Compared /\ \A v \in Vars : ~NearlyCancels(v)) => MeansWhatWasWritten

\* a number >= (a LinExpr without sense and with a term) has returned a <=
\* constraint that some assignments satisfy and others do not
C19_Witness ==
    /\ call.op = "ge"
    /\ call.lhs.kind = "num"
    /\ call.rhs.kind = "LinExpr"
    /\ call.rhs.e.sense = NoSense
    /\ call.rhs.e.expr # <<>>
    /\ result.kind = "LinExpr"
    /\ result.e.sense = LESS_OR_EQUAL
    /\ \E val \in Assignments : Holds(result.e, val)
    /\ \E val \in Assignments : ~Holds(result.e, val)

\* the coefficient c stands for the sum s: c is s, or s is within EPS of zero
\* and the term is gone
IsSumUpToEPS(c, s) == c = s \/ (Abs(s) <= EPS /\ c = 0)

\* e holds the terms and the constant of a + t * c
IsExtendedBy(e, a, t, c) ==
    /\ e.const = ConstOf(a) + NumMul(ConstOf(t), c)
    /\ \A v \in Vars :
          IsSumUpToEPS(Coef(e.expr, v), CoefOf(a, v) + NumMul(CoefOf(t, v), c))

\* C22 (as claimed): add_term(t, c) extends the receiver by t multiplied by c
\* for every kind of term: a Var adds c to its coefficient, a LinExpr adds c
\* times each coefficient and c times its constant, a number adds c * t to the
\* constant; xsum(terms) is the left-to-right sum of its terms.
C22_AddTermScalesEveryKind ==
    /\ (call.op = "add_term" /\ IsTerm(call.rhs)) =>
          /\ lhs.kind = "LinExpr"
          /\ IsExtendedBy(lhs.e, call.lhs, call.rhs, call.coeff)
    /\ (call.op = "xsum" /\ IsTerm(call.lhs) /\ IsTerm(call.rhs)) =>
          /\ result.kind = "LinExpr"
          /\ IsExtendedBy(result.e, call.lhs, call.rhs, One)

\* the places <<hash, j>> of the index that hold the position p
PlacesOf(p) ==
    {hj \in UNION {{<<h, j>> : j \in 1..Len(pos[h])} : h \in DOMAIN pos} :
        pos[hj[1]][hj[2]] = p}

\* every position of the store is in exactly one bucket, the bucket of the hash
\* of the cut stored there; no cut is stored before the first call
IndexConsistent ==
    /\ added.calls = 0 => cuts = <<>>
    /\ Len(cuts) <= added.calls
    /\ \A p \in 0..(Len(cuts) - 1) :
          /\ Cardinality(PlacesOf(p)) = 1
          /\ \A hj \in PlacesOf(p) : hj[1] = LinExpr_hash(cuts[p + 1])

\* one call of add: the stored cuts stay where they are; a call that returned
\* true appended its cut at the end, so the store grew by one; a call that
\* returned false changed neither the store nor the index
AddStep ==
    /\ SubSeq(cuts', 1, Len(cuts)) = cuts
    /\ added'.ret => cuts' = Append(cuts, added'.cut)
    /\ ~added'.ret => (cuts' = cuts /\ pos' = pos)

\* C21: after any sequence of CutPool.add calls the store is append-only and
\* the index is consistent: an accepted cut is appended at the end and never
\* moved or removed, a rejected call changes neither the store nor any bucket,
\* the number of stored cuts is the number of calls that returned true, and
\* every position 0..n-1 is in exactly one bucket, the one keyed by the hash of
\* the cut stored at that position.
C21_StoreAppendOnlyIndexConsistent ==
    []IndexConsistent /\ [][AddStep]_vars

\* two cuts with the same hash are stored in one bucket, and the last call was
\* rejected
C21_Witness ==
    /\ Len(cuts) >= 2
    /\ \E h \in DOMAIN pos : Len(pos[h]) >= 2
    /\ added.calls >= 3
    /\ ~added.ret


=============================================================================
